---- MODULE Spec2Model ----
(***************************************************************************)
(* Spanned and allocated statement trees of the statement grammar:         *)
(* the location algorithm (Node::loc) of every spanned statement node and  *)
(* the conversion (From / IntoAllocated) of spanned trees into allocated   *)
(* ones, together with the role container of the dci module.  The         *)
(* conversion is modelled twice: as the recursive function it is, and as   *)
(* the sequence of calls and returns its evaluation goes through.          *)
(*                                                                         *)
(* Representation.  A struct is a record with the struct's field names, an *)
(* enum value is a record with a "tag" field naming the variant, an        *)
(* Option is a sequence of length 0 (None) or 1 (Some), a Vec is a         *)
(* sequence and a Box is the boxed value itself.                           *)
(***************************************************************************)
EXTENDS Integers, Sequences, FiniteSets, TLC

VARIABLES stmt, node, location, allocated, role, roleAllocated,
          stack, visited, steps, aborted

vars == <<stmt, node, location, allocated, role, roleAllocated,
          stack, visited, steps, aborted>>

\* the state of a conversion under way: the calls of From::from that have
\* not returned, the statements they were made on, the number of steps
\* taken, and whether the process was aborted for running out of call
\* stack
walk == <<stack, visited, steps, aborted>>

(***************************************************************************)
(* Bounds of the explored inputs.                                          *)
(***************************************************************************)
\* longest source, in tokens, of a statement tree of any variants
MaxTokens == 6
\* longest source of a tree of if statements
MaxIfTokens == 17
\* longest source of a tree of nested single-body statements
MaxBodyTokens == 12
\* longest source of a tree of switch statements
MaxSwitchTokens == 13
\* longest source of a tree of try statements
MaxTryTokens == 12
\* deepest nesting of statements (a leaf statement has depth 1)
MaxDepth == 3
\* most program parts in one block or case consequent
MaxParts == 2
\* most cases in one switch
MaxCases == 2
\* most declarators in one declaration list
MaxDecls == 2
\* most entries in one role body
MaxProps == 3

(***************************************************************************)
(* Option helpers.                                                         *)
(***************************************************************************)
None == <<>>
Some(x) == <<x>>
IsSome(o) == Len(o) = 1
IsNone(o) == Len(o) = 0
Unwrap(o) == o[1]

\* Vec::last
Last(v) == IF Len(v) = 0 THEN None ELSE Some(v[Len(v)])

(***************************************************************************)
(* Leaf tokens.  The t-th token of the source occupies [2t, 2t+1): tokens  *)
(* are one unit wide and separated by one unit, so every token boundary of *)
(* a source is a distinct offset and tokens appear in source order.        *)
(***************************************************************************)
TokLoc(t) == [start |-> 2 * t, end |-> 2 * t + 1]

\* a Slice: the raw text and its intrinsic location
Slice(t, text) == [source |-> text, loc |-> TokLoc(t)]

\* identifier-like leaves are named after their token
Name(t) == "n" \o ToString(t)

\* spanned leaves of the collaborating grammars (expression, identifier,
\* pattern, declarator, declaration kind, declaration)
ExprAt(t) == [kind |-> "Expr", slice |-> Slice(t, Name(t))]
IdentAt(t) == [kind |-> "Ident", slice |-> Slice(t, Name(t))]
PatAt(t) == [kind |-> "Pat", slice |-> Slice(t, Name(t))]
VarDeclAt(t) == [kind |-> "VarDecl", slice |-> Slice(t, Name(t))]
VarKindAt(t, k) == [kind |-> "VarKind", slice |-> Slice(t, k)]
DeclAt(t) == [kind |-> "Decl", slice |-> Slice(t, Name(t))]

\* Node::loc of the collaborating leaves: the intrinsic location
ExprLoc(e) == e.slice.loc
IdentLoc(i) == i.slice.loc
PatLoc(p) == p.slice.loc
VarDeclLoc(d) == d.slice.loc
VarKindLoc(k) == k.slice.loc
DeclLoc(d) == d.slice.loc

\* conversion of the collaborating leaves: the text is kept, the location
\* is dropped
ExprFrom(e) == [kind |-> "Expr", name |-> e.slice.source]
IdentFrom(i) == [kind |-> "Ident", name |-> i.slice.source]
PatFrom(p) == [kind |-> "Pat", name |-> p.slice.source]
VarDeclFrom(d) == [kind |-> "VarDecl", name |-> d.slice.source]
VarKindFrom(k) == k.slice.source
DeclFrom(d) == [kind |-> "Decl", name |-> d.slice.source]

\* ListEntry: an item paired with its optional separator
ListEntry(item, comma) == [item |-> item, comma |-> comma]

ListEntryLoc(e) ==
    IF IsSome(e.comma)
    THEN [start |-> VarDeclLoc(e.item).start, end |-> Unwrap(e.comma).loc.end]
    ELSE VarDeclLoc(e.item)

\* VarDecls: the declaration keyword and its declarator list
VarDeclsLoc(d) ==
    IF IsSome(Last(d.decls))
    THEN [start |-> VarKindLoc(d.keyword).start,
          end |-> ListEntryLoc(Unwrap(Last(d.decls))).end]
    ELSE VarKindLoc(d.keyword)

(***************************************************************************)
(* Node::loc of the spanned statement nodes (spanned/stmt.rs).             *)
(***************************************************************************)
RECURSIVE StmtLoc(_)

\* ProgramPart: a statement or a declaration in a sequence position
ProgramPartLoc(p) ==
    IF p.tag = "Stmt" THEN StmtLoc(p.stmt) ELSE DeclLoc(p.decl)

\* Stmt::Expr arm
StmtExprLoc(s) ==
    IF IsSome(s.semi_colon)
    THEN [start |-> ExprLoc(s.expr).start, end |-> Unwrap(s.semi_colon).loc.end]
    ELSE ExprLoc(s.expr)

\* Stmt::Empty arm
StmtEmptyLoc(s) == s.inner.loc

\* Stmt::Debugger arm
StmtDebuggerLoc(s) ==
    IF IsSome(s.semi_colon)
    THEN [start |-> s.keyword.loc.start, end |-> Unwrap(s.semi_colon).loc.end]
    ELSE s.keyword.loc

\* the value looked at before the terminator
StmtReturnLoc_ValueFirst(s) ==
    IF IsSome(s.value)
    THEN [start |-> s.keyword.loc.start, end |-> ExprLoc(Unwrap(s.value)).end]
    ELSE IF IsSome(s.semi_colon)
    THEN [start |-> s.keyword.loc.start, end |-> Unwrap(s.semi_colon).loc.end]
    ELSE s.keyword.loc

\* Stmt::Return arm
StmtReturnLoc(s) ==
    IF IsSome(s.semi_colon)
    THEN [start |-> s.keyword.loc.start, end |-> Unwrap(s.semi_colon).loc.end]
    ELSE IF IsSome(s.value)
    THEN [start |-> s.keyword.loc.start, end |-> ExprLoc(Unwrap(s.value)).end]
    ELSE s.keyword.loc

\* Stmt::Break arm
StmtBreakLoc(s) ==
    IF IsSome(s.semi_colon)
    THEN [start |-> s.keyword.loc.start, end |-> Unwrap(s.semi_colon).loc.end]
    ELSE IF IsSome(s.label)
    THEN [start |-> s.keyword.loc.start, end |-> IdentLoc(Unwrap(s.label)).end]
    ELSE s.keyword.loc

\* Stmt::Continue arm
StmtContinueLoc(s) ==
    IF IsSome(s.semi_colon)
    THEN [start |-> s.keyword.loc.start, end |-> Unwrap(s.semi_colon).loc.end]
    ELSE IF IsSome(s.label)
    THEN [start |-> s.keyword.loc.start, end |-> IdentLoc(Unwrap(s.label)).end]
    ELSE s.keyword.loc

\* Stmt::Throw arm
StmtThrowLoc(s) ==
    IF IsSome(s.semi_colon)
    THEN [start |-> s.keyword.loc.start, end |-> Unwrap(s.semi_colon).loc.end]
    ELSE [start |-> s.keyword.loc.start, end |-> ExprLoc(s.expr).end]

\* the terminator left out
StmtVarLoc_DeclsOnly(s) == VarDeclsLoc(s.decls)

\* Stmt::Var arm
StmtVarLoc(s) ==
    IF IsSome(s.semi_colon)
    THEN [start |-> VarDeclsLoc(s.decls).start, end |-> Unwrap(s.semi_colon).loc.end]
    ELSE VarDeclsLoc(s.decls)

WithStmtLoc(s) ==
    [start |-> s.keyword.loc.start, end |-> StmtLoc(s.body).end]

LabeledStmtLoc(s) ==
    [start |-> IdentLoc(s.label).start, end |-> StmtLoc(s.body).end]

ElseStmtLoc(s) ==
    [start |-> s.keyword.loc.start, end |-> StmtLoc(s.body).end]

\* the else clause left out of the span
IfStmtLoc_ConsequentEnd(s) ==
    [start |-> s.keyword.loc.start, end |-> StmtLoc(s.consequent).end]

IfStmtLoc(s) ==
    LET start == s.keyword.loc.start
        end == IF IsSome(s.alternate)
               THEN ElseStmtLoc(Unwrap(s.alternate)).end
               ELSE StmtLoc(s.consequent).end
    IN  [start |-> start, end |-> end]

\* the span of the whole statement, the case list included
SwitchStmtLoc_ToCloseBrace(s) ==
    [start |-> s.keyword.loc.start, end |-> s.close_brace.loc.end]

SwitchStmtLoc(s) ==
    [start |-> s.keyword.loc.start, end |-> s.close_paren.loc.end]

\* the end taken from the first consequent part
SwitchCaseLoc_FirstPart(c) ==
    LET end == IF Len(c.consequent) > 0
               THEN ProgramPartLoc(c.consequent[1]).end
               ELSE c.colon.loc.end
    IN  [start |-> c.keyword.loc.start, end |-> end]

SwitchCaseLoc(c) ==
    LET end == IF IsSome(Last(c.consequent))
               THEN ProgramPartLoc(Unwrap(Last(c.consequent))).end
               ELSE c.colon.loc.end
    IN  [start |-> c.keyword.loc.start, end |-> end]

\* the braces taken for one another
BlockStmtLoc_Swapped(b) ==
    [start |-> b.close_brace.loc.start, end |-> b.open_brace.loc.end]

BlockStmtLoc(b) ==
    [start |-> b.open_brace.loc.start, end |-> b.close_brace.loc.end]

CatchClauseLoc(c) ==
    [start |-> c.keyword.loc.start, end |-> BlockStmtLoc(c.body).end]

CatchArgLoc(a) ==
    [start |-> a.open_paren.loc.start, end |-> a.close_paren.loc.end]

FinallyClauseLoc(f) ==
    [start |-> f.keyword.loc.start, end |-> BlockStmtLoc(f.body).end]

\* the handler looked at before the finalizer
TryStmtLoc_HandlerFirst(s) ==
    LET end == IF IsSome(s.handler)
               THEN CatchClauseLoc(Unwrap(s.handler)).end
               ELSE IF IsSome(s.finalizer)
               THEN FinallyClauseLoc(Unwrap(s.finalizer)).end
               ELSE BlockStmtLoc(s.block).end
    IN  [start |-> s.keyword.loc.start, end |-> end]

TryStmtLoc(s) ==
    LET end == IF IsSome(s.finalizer)
               THEN FinallyClauseLoc(Unwrap(s.finalizer)).end
               ELSE IF IsSome(s.handler)
               THEN CatchClauseLoc(Unwrap(s.handler)).end
               ELSE BlockStmtLoc(s.block).end
    IN  [start |-> s.keyword.loc.start, end |-> end]

\* the span of the loop header only
WhileStmtLoc_ToCloseParen(s) ==
    [start |-> s.keyword.loc.start, end |-> s.close_paren.loc.end]

WhileStmtLoc(s) ==
    [start |-> s.keyword.loc.start, end |-> StmtLoc(s.body).end]

\* the trailing terminator included in the span, as in the other statements
DoWhileStmtLoc_ToTerminator(s) ==
    [start |-> s.keyword_do.loc.start,
     end |-> IF IsSome(s.semi_colon)
             THEN Unwrap(s.semi_colon).loc.end
             ELSE s.close_paren.loc.end]

DoWhileStmtLoc(s) ==
    [start |-> s.keyword_do.loc.start, end |-> s.close_paren.loc.end]

\* the body left out of the span
ForStmtLoc_ToCloseParen(s) ==
    [start |-> s.keyword.loc.start, end |-> s.close_paren.loc.end]

ForStmtLoc(s) ==
    [start |-> s.keyword.loc.start, end |-> StmtLoc(s.body).end]

\* the declarators left out
LoopInitLoc_KindOnly(i) ==
    IF i.tag = "Variable" THEN VarKindLoc(i.kind) ELSE ExprLoc(i.inner)

LoopInitLoc(i) ==
    IF i.tag = "Variable"
    THEN IF IsSome(Last(i.decls))
         THEN [start |-> VarKindLoc(i.kind).start,
               end |-> ListEntryLoc(Unwrap(Last(i.decls))).end]
         ELSE VarKindLoc(i.kind)
    ELSE ExprLoc(i.inner)

ForInStmtLoc(s) ==
    [start |-> s.keyword_for.loc.start, end |-> StmtLoc(s.body).end]

ForOfStmtLoc(s) ==
    [start |-> s.keyword_for.loc.start, end |-> StmtLoc(s.body).end]

LoopLeftLoc(l) ==
    CASE l.tag = "Expr" -> ExprLoc(l.inner)
      [] l.tag = "Variable" ->
            [start |-> VarKindLoc(l.kind).start, end |-> VarDeclLoc(l.decl).end]
      [] l.tag = "Pat" -> PatLoc(l.inner)

\* impl Node for Stmt
StmtLoc(s) ==
    CASE s.tag = "Expr" -> StmtExprLoc(s)
      [] s.tag = "Block" -> BlockStmtLoc(s.inner)
      [] s.tag = "Empty" -> StmtEmptyLoc(s)
      [] s.tag = "Debugger" -> StmtDebuggerLoc(s)
      [] s.tag = "With" -> WithStmtLoc(s.inner)
      [] s.tag = "Return" -> StmtReturnLoc(s)
      [] s.tag = "Labeled" -> LabeledStmtLoc(s.inner)
      [] s.tag = "Break" -> StmtBreakLoc(s)
      [] s.tag = "Continue" -> StmtContinueLoc(s)
      [] s.tag = "If" -> IfStmtLoc(s.inner)
      [] s.tag = "Switch" -> SwitchStmtLoc(s.inner)
      [] s.tag = "Throw" -> StmtThrowLoc(s)
      [] s.tag = "Try" -> TryStmtLoc(s.inner)
      [] s.tag = "While" -> WhileStmtLoc(s.inner)
      [] s.tag = "DoWhile" -> DoWhileStmtLoc(s.inner)
      [] s.tag = "For" -> ForStmtLoc(s.inner)
      [] s.tag = "ForIn" -> ForInStmtLoc(s.inner)
      [] s.tag = "ForOf" -> ForOfStmtLoc(s.inner)
      [] s.tag = "Var" -> StmtVarLoc(s)

(***************************************************************************)
(* Conversion of spanned statements to allocated ones (the From impls of   *)
(* spanned/stmt.rs).  A variant wrapping a struct keeps it in the field    *)
(* "inner"; the other tuple variants name their payload after its role.    *)
(***************************************************************************)
RECURSIVE StmtFrom(_)

\* From<ProgramPart>
ProgramPartFrom(p) ==
    IF p.tag = "Stmt"
    THEN [tag |-> "Stmt", stmt |-> StmtFrom(p.stmt)]
    ELSE [tag |-> "Decl", decl |-> DeclFrom(p.decl)]

\* the closure |e| e.item.into() of the Var and LoopInit arms
ListEntryItemFrom(e) == VarDeclFrom(e.item)

WithStmtFrom(other) ==
    [object |-> ExprFrom(other.object), body |-> StmtFrom(other.body)]

LabeledStmtFrom(other) ==
    [label |-> IdentFrom(other.label), body |-> StmtFrom(other.body)]

\* the closure |s| Box::new(From::from(s.body)) of From<IfStmt>
ElseStmtBodyFrom(e) == StmtFrom(e.body)

IfStmtFrom(other) ==
    [test |-> ExprFrom(other.test),
     consequent |-> StmtFrom(other.consequent),
     alternate |-> IF IsSome(other.alternate)
                   THEN Some(ElseStmtBodyFrom(Unwrap(other.alternate)))
                   ELSE None]

SwitchCaseFrom(other) ==
    [test |-> (IF IsSome(other.test) THEN Some(ExprFrom(Unwrap(other.test))) ELSE None),
     consequent |-> [i \in 1..Len(other.consequent) |-> ProgramPartFrom(other.consequent[i])]]

SwitchStmtFrom(other) ==
    [discriminant |-> ExprFrom(other.discriminant),
     cases |-> [i \in 1..Len(other.cases) |-> SwitchCaseFrom(other.cases[i])]]

\* the parts collected in reverse
BlockStmtFrom_Reversed(other) ==
    [i \in 1..Len(other.stmts) |->
        ProgramPartFrom(other.stmts[Len(other.stmts) + 1 - i])]

\* the allocated BlockStmt is a tuple struct around the parts
BlockStmtFrom(other) == [i \in 1..Len(other.stmts) |-> ProgramPartFrom(other.stmts[i])]

\* the closure |a| a.param.into() of From<CatchClause>
CatchArgParamFrom(a) == PatFrom(a.param)

CatchClauseFrom(other) ==
    [param |-> IF IsSome(other.param)
               THEN Some(CatchArgParamFrom(Unwrap(other.param)))
               ELSE None,
     body |-> BlockStmtFrom(other.body)]

\* From<FinallyClause> for the allocated BlockStmt
FinallyClauseFrom(other) == BlockStmtFrom(other.body)

TryStmtFrom(other) ==
    [block |-> BlockStmtFrom(other.block),
     handler |-> IF IsSome(other.handler)
                 THEN Some(CatchClauseFrom(Unwrap(other.handler)))
                 ELSE None,
     finalizer |-> IF IsSome(other.finalizer)
                   THEN Some(FinallyClauseFrom(Unwrap(other.finalizer)))
                   ELSE None]

WhileStmtFrom(other) ==
    [test |-> ExprFrom(other.test), body |-> StmtFrom(other.body)]

\* the presence of the terminator carried over
DoWhileStmtFrom_KeepsTerminator(other) ==
    [test |-> ExprFrom(other.test), body |-> StmtFrom(other.body),
     semi_colon |-> IsSome(other.semi_colon)]

DoWhileStmtFrom(other) ==
    [test |-> ExprFrom(other.test), body |-> StmtFrom(other.body)]

LoopInitFrom(other) ==
    IF other.tag = "Expr"
    THEN [tag |-> "Expr", inner |-> ExprFrom(other.inner)]
    ELSE [tag |-> "Variable", kind |-> VarKindFrom(other.kind),
          decls |-> [i \in 1..Len(other.decls) |-> ListEntryItemFrom(other.decls[i])]]

ForStmtFrom(other) ==
    [init |-> (IF IsSome(other.init) THEN Some(LoopInitFrom(Unwrap(other.init))) ELSE None),
     test |-> (IF IsSome(other.test) THEN Some(ExprFrom(Unwrap(other.test))) ELSE None),
     update |-> (IF IsSome(other.update) THEN Some(ExprFrom(Unwrap(other.update))) ELSE None),
     body |-> StmtFrom(other.body)]

LoopLeftFrom(other) ==
    CASE other.tag = "Expr" -> [tag |-> "Expr", inner |-> ExprFrom(other.inner)]
      [] other.tag = "Variable" ->
            [tag |-> "Variable", kind |-> VarKindFrom(other.kind),
             decl |-> VarDeclFrom(other.decl)]
      [] other.tag = "Pat" -> [tag |-> "Pat", inner |-> PatFrom(other.inner)]

ForInStmtFrom(other) ==
    [left |-> LoopLeftFrom(other.left),
     right |-> ExprFrom(other.right),
     body |-> StmtFrom(other.body)]

ForOfStmtFrom(other) ==
    [left |-> LoopLeftFrom(other.left),
     right |-> ExprFrom(other.right),
     body |-> StmtFrom(other.body),
     is_await |-> other.is_await]

\* impl From<Stmt> for crate::stmt::Stmt
StmtFrom(other) ==
    CASE other.tag = "Expr" -> [tag |-> "Expr", expr |-> ExprFrom(other.expr)]
      [] other.tag = "Block" -> [tag |-> "Block", block |-> BlockStmtFrom(other.inner)]
      [] other.tag = "Empty" -> [tag |-> "Empty"]
      [] other.tag = "Debugger" -> [tag |-> "Debugger"]
      [] other.tag = "With" -> [tag |-> "With", inner |-> WithStmtFrom(other.inner)]
      [] other.tag = "Return" ->
            [tag |-> "Return",
             value |-> IF IsSome(other.value)
                       THEN Some(ExprFrom(Unwrap(other.value))) ELSE None]
      [] other.tag = "Labeled" -> [tag |-> "Labeled", inner |-> LabeledStmtFrom(other.inner)]
      [] other.tag = "Break" ->
            [tag |-> "Break",
             label |-> IF IsSome(other.label)
                       THEN Some(IdentFrom(Unwrap(other.label))) ELSE None]
      [] other.tag = "Continue" ->
            [tag |-> "Continue",
             label |-> IF IsSome(other.label)
                       THEN Some(IdentFrom(Unwrap(other.label))) ELSE None]
      [] other.tag = "If" -> [tag |-> "If", inner |-> IfStmtFrom(other.inner)]
      [] other.tag = "Switch" -> [tag |-> "Switch", inner |-> SwitchStmtFrom(other.inner)]
      [] other.tag = "Throw" -> [tag |-> "Throw", expr |-> ExprFrom(other.expr)]
      [] other.tag = "Try" -> [tag |-> "Try", inner |-> TryStmtFrom(other.inner)]
      [] other.tag = "While" -> [tag |-> "While", inner |-> WhileStmtFrom(other.inner)]
      [] other.tag = "DoWhile" -> [tag |-> "DoWhile", inner |-> DoWhileStmtFrom(other.inner)]
      [] other.tag = "For" -> [tag |-> "For", inner |-> ForStmtFrom(other.inner)]
      [] other.tag = "ForIn" -> [tag |-> "ForIn", inner |-> ForInStmtFrom(other.inner)]
      [] other.tag = "ForOf" -> [tag |-> "ForOf", inner |-> ForOfStmtFrom(other.inner)]
      [] other.tag = "Var" ->
            [tag |-> "Var",
             decls |-> [i \in 1..Len(other.decls.decls) |->
                          ListEntryItemFrom(other.decls.decls[i])]]

(***************************************************************************)
(* Well-formed spanned trees.  An operator named XAt(p, ...) builds the    *)
(* node X whose first token is the p-th token of the source; the tokens of *)
(* a node are consecutive tokens of the source, in the order of the        *)
(* struct's fields.  An operator named XsAt(p, n, ...) is the set of the   *)
(* nodes X that start at token p and consist of exactly n tokens.          *)
(***************************************************************************)
OptSlice(present, t, text) == IF present THEN Some(Slice(t, text)) ELSE None

\* the number of tokens of an optional one-token slot
Tok(present) == IF present THEN 1 ELSE 0

StmtExprAt(p, semi) ==
    [tag |-> "Expr", expr |-> ExprAt(p), semi_colon |-> OptSlice(semi, p + 1, ";")]

StmtEmptyAt(p) == [tag |-> "Empty", inner |-> Slice(p, ";")]

StmtDebuggerAt(p, semi) ==
    [tag |-> "Debugger", keyword |-> Slice(p, "debugger"),
     semi_colon |-> OptSlice(semi, p + 1, ";")]

StmtReturnAt(p, val, semi) ==
    [tag |-> "Return", keyword |-> Slice(p, "return"),
     value |-> IF val THEN Some(ExprAt(p + 1)) ELSE None,
     semi_colon |-> OptSlice(semi, p + 1 + Tok(val), ";")]

StmtBreakAt(p, lab, semi) ==
    [tag |-> "Break", keyword |-> Slice(p, "break"),
     label |-> IF lab THEN Some(IdentAt(p + 1)) ELSE None,
     semi_colon |-> OptSlice(semi, p + 1 + Tok(lab), ";")]

StmtContinueAt(p, lab, semi) ==
    [tag |-> "Continue", keyword |-> Slice(p, "continue"),
     label |-> IF lab THEN Some(IdentAt(p + 1)) ELSE None,
     semi_colon |-> OptSlice(semi, p + 1 + Tok(lab), ";")]

StmtThrowAt(p, semi) ==
    [tag |-> "Throw", keyword |-> Slice(p, "throw"), expr |-> ExprAt(p + 1),
     semi_colon |-> OptSlice(semi, p + 2, ";")]

\* k declarators separated by commas, the first at token p
DeclListAt(p, k) ==
    [i \in 1..k |->
        ListEntry(VarDeclAt(p + 2 * (i - 1)),
                  OptSlice(i < k, p + 2 * (i - 1) + 1, ","))]

\* the number of tokens of a list of k declarators
DeclListTokens(k) == IF k = 0 THEN 0 ELSE 2 * k - 1

VarDeclsAt(p, k) ==
    [keyword |-> VarKindAt(p, "var"), decls |-> DeclListAt(p + 1, k)]

StmtVarAt(p, k, semi) ==
    [tag |-> "Var", decls |-> VarDeclsAt(p, k),
     semi_colon |-> OptSlice(semi, p + 1 + DeclListTokens(k), ";")]

\* the statements without a nested statement, of exactly n tokens
AllLeafStmtsAt(p, n) ==
    {StmtExprAt(p, semi) : semi \in {b \in BOOLEAN : 1 + Tok(b) = n}}
    \cup (IF n = 1 THEN {StmtEmptyAt(p)} ELSE {})
    \cup {StmtDebuggerAt(p, semi) : semi \in {b \in BOOLEAN : 1 + Tok(b) = n}}
    \cup {StmtReturnAt(p, o[1], o[2]) :
            o \in {x \in BOOLEAN \X BOOLEAN : 1 + Tok(x[1]) + Tok(x[2]) = n}}
    \cup {StmtBreakAt(p, o[1], o[2]) :
            o \in {x \in BOOLEAN \X BOOLEAN : 1 + Tok(x[1]) + Tok(x[2]) = n}}
    \cup {StmtContinueAt(p, o[1], o[2]) :
            o \in {x \in BOOLEAN \X BOOLEAN : 1 + Tok(x[1]) + Tok(x[2]) = n}}
    \cup {StmtThrowAt(p, semi) : semi \in {b \in BOOLEAN : 2 + Tok(b) = n}}
    \cup {StmtVarAt(p, o[1], o[2]) :
            o \in {x \in (1..MaxDecls) \X BOOLEAN :
                     1 + DeclListTokens(x[1]) + Tok(x[2]) = n}}

\* Option<LoopInit> of exactly m tokens
LoopInitsAt(p, m) ==
    (IF m = 0 THEN {None} ELSE {})
    \cup (IF m = 1 THEN {Some([tag |-> "Expr", inner |-> ExprAt(p)])} ELSE {})
    \cup {Some([tag |-> "Variable", kind |-> VarKindAt(p, "let"),
                decls |-> DeclListAt(p + 1, k)]) :
            k \in {x \in 0..MaxDecls : 1 + DeclListTokens(x) = m}}

\* LoopLeft of exactly m tokens
LoopLeftsAt(p, m) ==
    (IF m = 1
     THEN {[tag |-> "Expr", inner |-> ExprAt(p)], [tag |-> "Pat", inner |-> PatAt(p)]}
     ELSE {})
    \cup (IF m = 2
          THEN {[tag |-> "Variable", kind |-> VarKindAt(p, "const"),
                 decl |-> VarDeclAt(p + 1)]}
          ELSE {})

WithStmtAt(p, body) ==
    [keyword |-> Slice(p, "with"), open_paren |-> Slice(p + 1, "("),
     object |-> ExprAt(p + 2), close_paren |-> Slice(p + 3, ")"), body |-> body]

LabeledStmtAt(p, body) ==
    [label |-> IdentAt(p), colon |-> Slice(p + 1, ":"), body |-> body]

WhileStmtAt(p, body) ==
    [keyword |-> Slice(p, "while"), open_paren |-> Slice(p + 1, "("),
     test |-> ExprAt(p + 2), close_paren |-> Slice(p + 3, ")"), body |-> body]

\* b is the number of tokens of the body
DoWhileStmtAt(p, body, b, semi) ==
    [keyword_do |-> Slice(p, "do"), body |-> body,
     keyword_while |-> Slice(p + 1 + b, "while"),
     open_paren |-> Slice(p + 2 + b, "("), test |-> ExprAt(p + 3 + b),
     close_paren |-> Slice(p + 4 + b, ")"),
     semi_colon |-> OptSlice(semi, p + 5 + b, ";")]

\* m is the number of tokens of the init
ForStmtAt(p, init, m, test, update, body) ==
    [keyword |-> Slice(p, "for"), open_paren |-> Slice(p + 1, "("),
     init |-> init, semi1 |-> Slice(p + 2 + m, ";"),
     test |-> IF test THEN Some(ExprAt(p + 3 + m)) ELSE None,
     semi2 |-> Slice(p + 3 + m + Tok(test), ";"),
     update |-> IF update THEN Some(ExprAt(p + 4 + m + Tok(test))) ELSE None,
     close_paren |-> Slice(p + 4 + m + Tok(test) + Tok(update), ")"),
     body |-> body]

\* m is the number of tokens of the left-hand side
ForInStmtAt(p, left, m, body) ==
    [keyword_for |-> Slice(p, "for"), open_paren |-> Slice(p + 1, "("),
     left |-> left, keyword_in |-> Slice(p + 2 + m, "in"),
     right |-> ExprAt(p + 3 + m), close_paren |-> Slice(p + 4 + m, ")"),
     body |-> body]

ForOfStmtAt(p, left, m, body, is_await) ==
    [keyword_for |-> Slice(p, "for"), open_paren |-> Slice(p + 1, "("),
     left |-> left, keyword_of |-> Slice(p + 2 + m, "of"),
     right |-> ExprAt(p + 3 + m), close_paren |-> Slice(p + 4 + m, ")"),
     body |-> body, is_await |-> is_await]

ElseStmtAt(p, body) == [keyword |-> Slice(p, "else"), body |-> body]

IfStmtAt(p, consequent, alternate) ==
    [keyword |-> Slice(p, "if"), open_paren |-> Slice(p + 1, "("),
     test |-> ExprAt(p + 2), close_paren |-> Slice(p + 3, ")"),
     consequent |-> consequent, alternate |-> alternate]

\* n is the number of tokens of the block, braces included
BlockStmtAt(p, stmts, n) ==
    [open_brace |-> Slice(p, "{"), stmts |-> stmts,
     close_brace |-> Slice(p + n - 1, "}")]

\* the case keyword is `case` with a test and `default` without
SwitchCaseAt(p, test, consequent) ==
    [keyword |-> Slice(p, IF test THEN "case" ELSE "default"),
     test |-> IF test THEN Some(ExprAt(p + 1)) ELSE None,
     colon |-> Slice(p + 1 + Tok(test), ":"), consequent |-> consequent]

\* n is the number of tokens of the statement
SwitchStmtAt(p, cases, n) ==
    [keyword |-> Slice(p, "switch"), open_paren |-> Slice(p + 1, "("),
     discriminant |-> ExprAt(p + 2), close_paren |-> Slice(p + 3, ")"),
     open_brace |-> Slice(p + 4, "{"), cases |-> cases,
     close_brace |-> Slice(p + n - 1, "}")]

CatchArgAt(p) ==
    [open_paren |-> Slice(p, "("), param |-> PatAt(p + 1),
     close_paren |-> Slice(p + 2, ")")]

CatchClauseAt(p, param, body) ==
    [keyword |-> Slice(p, "catch"),
     param |-> IF param THEN Some(CatchArgAt(p + 1)) ELSE None, body |-> body]

FinallyClauseAt(p, body) == [keyword |-> Slice(p, "finally"), body |-> body]

TryStmtAt(p, block, handler, finalizer) ==
    [keyword |-> Slice(p, "try"), block |-> block, handler |-> handler,
     finalizer |-> finalizer]

(***************************************************************************)
(* A grammar g is the set of the variant tags a tree may use ("Decl" for   *)
(* a declaration in a sequence position).  Restricting the grammar lets    *)
(* longer sources be explored for the variants a property is about.        *)
(***************************************************************************)
Only(g, tag, S) == IF tag \in g THEN S ELSE {}

LeafStmtsAt(p, n, g) == {s \in AllLeafStmtsAt(p, n) : s.tag \in g}

RECURSIVE StmtsAt(_, _, _, _), PartsAt(_, _, _, _, _), CasesAt(_, _, _, _, _)

\* the program parts of exactly n tokens, nested at most d deep
PartAt(p, n, d, g) ==
    {[tag |-> "Stmt", stmt |-> x] : x \in StmtsAt(p, n, d, g)}
    \cup (IF n = 1 THEN Only(g, "Decl", {[tag |-> "Decl", decl |-> DeclAt(p)]}) ELSE {})

\* the sequences of at most k program parts, of n tokens altogether
PartsAt(p, n, d, g, k) ==
    IF n = 0 THEN {<<>>}
    ELSE IF k = 0 THEN {}
    ELSE UNION {{<<x>> \o rest : x \in PartAt(p, i, d, g),
                                 rest \in PartsAt(p + i, n - i, d, g, k - 1)} :
                i \in 1..n}

\* the blocks of exactly n tokens whose parts nest at most d deep
BlocksAt(p, n, d, g) ==
    IF n < 2 THEN {}
    ELSE {BlockStmtAt(p, stmts, n) : stmts \in PartsAt(p + 1, n - 2, d, g, MaxParts)}

\* the cases of exactly n tokens whose consequents nest at most d deep
CaseAt(p, n, d, g) ==
    UNION {{SwitchCaseAt(p, test, consequent) :
                consequent \in PartsAt(p + 2 + Tok(test), n - 2 - Tok(test), d, g, MaxParts)} :
           test \in {b \in BOOLEAN : n >= 2 + Tok(b)}}

\* the sequences of at most k cases, of n tokens altogether
CasesAt(p, n, d, g, k) ==
    IF n = 0 THEN {<<>>}
    ELSE IF k = 0 THEN {}
    ELSE UNION {{<<x>> \o rest : x \in CaseAt(p, i, d, g),
                                 rest \in CasesAt(p + i, n - i, d, g, k - 1)} :
                i \in 2..n}

SwitchStmtsAt(p, n, d, g) ==
    IF n < 6 THEN {}
    ELSE {SwitchStmtAt(p, cases, n) : cases \in CasesAt(p + 5, n - 6, d, g, MaxCases)}

\* Option<CatchClause> of exactly n tokens
HandlersAt(p, n, d, g) ==
    (IF n = 0 THEN {None} ELSE {})
    \cup UNION {{Some(CatchClauseAt(p, param, body)) :
                    body \in BlocksAt(p + 1 + 3 * Tok(param), n - 1 - 3 * Tok(param), d, g)} :
                param \in BOOLEAN}

\* Option<FinallyClause> of exactly n tokens
FinalizersAt(p, n, d, g) ==
    (IF n = 0 THEN {None} ELSE {})
    \cup {Some(FinallyClauseAt(p, body)) : body \in BlocksAt(p + 1, n - 1, d, g)}

TryStmtsAt(p, n, d, g) ==
    UNION {UNION {{TryStmtAt(p, block, handler, finalizer) :
                      block \in BlocksAt(p + 1, b, d, g),
                      handler \in HandlersAt(p + 1 + b, h, d, g),
                      finalizer \in FinalizersAt(p + 1 + b + h, n - 1 - b - h, d, g)} :
                  h \in 0..(n - 1 - b)} :
           b \in 2..(n - 1)}

IfStmtsAt(p, n, d, g) ==
    {IfStmtAt(p, consequent, None) : consequent \in StmtsAt(p + 4, n - 4, d, g)}
    \cup UNION {{IfStmtAt(p, consequent, Some(ElseStmtAt(p + 4 + c, body))) :
                    consequent \in StmtsAt(p + 4, c, d, g),
                    body \in StmtsAt(p + 5 + c, n - 5 - c, d, g)} :
                c \in 1..(n - 6)}

ForStmtsAt(p, n, d, g) ==
    UNION {{ForStmtAt(p, o[1], o[2], o[3], o[4], body) :
                body \in StmtsAt(p + 5 + o[2] + Tok(o[3]) + Tok(o[4]),
                                 n - 5 - o[2] - Tok(o[3]) - Tok(o[4]), d, g)} :
           o \in UNION {LoopInitsAt(p + 2, m) \X {m} \X BOOLEAN \X BOOLEAN :
                            m \in 0..(n - 6)}}

ForInStmtsAt(p, n, d, g) ==
    UNION {{ForInStmtAt(p, o[1], o[2], body) :
                body \in StmtsAt(p + 5 + o[2], n - 5 - o[2], d, g)} :
           o \in UNION {LoopLeftsAt(p + 2, m) \X {m} : m \in 1..2}}

ForOfStmtsAt(p, n, d, g) ==
    UNION {{ForOfStmtAt(p, o[1], o[2], body, o[3]) :
                body \in StmtsAt(p + 5 + o[2], n - 5 - o[2], d, g)} :
           o \in UNION {LoopLeftsAt(p + 2, m) \X {m} \X BOOLEAN : m \in 1..2}}

DoWhileStmtsAt(p, n, d, g) ==
    UNION {{DoWhileStmtAt(p, body, n - 5 - Tok(semi), semi) :
                body \in StmtsAt(p + 1, n - 5 - Tok(semi), d, g)} :
           semi \in BOOLEAN}

\* the statements of grammar g of exactly n tokens, nested at most d deep
StmtsAt(p, n, d, g) ==
    IF n < 1 \/ d < 1 THEN {}
    ELSE LeafStmtsAt(p, n, g)
         \cup Only(g, "Block",
                {[tag |-> "Block", inner |-> x] : x \in BlocksAt(p, n, d - 1, g)})
         \cup Only(g, "With",
                {[tag |-> "With", inner |-> WithStmtAt(p, body)] :
                    body \in StmtsAt(p + 4, n - 4, d - 1, g)})
         \cup Only(g, "Labeled",
                {[tag |-> "Labeled", inner |-> LabeledStmtAt(p, body)] :
                    body \in StmtsAt(p + 2, n - 2, d - 1, g)})
         \cup Only(g, "If",
                {[tag |-> "If", inner |-> x] : x \in IfStmtsAt(p, n, d - 1, g)})
         \cup Only(g, "Switch",
                {[tag |-> "Switch", inner |-> x] : x \in SwitchStmtsAt(p, n, d - 1, g)})
         \cup Only(g, "Try",
                {[tag |-> "Try", inner |-> x] : x \in TryStmtsAt(p, n, d - 1, g)})
         \cup Only(g, "While",
                {[tag |-> "While", inner |-> WhileStmtAt(p, body)] :
                    body \in StmtsAt(p + 4, n - 4, d - 1, g)})
         \cup Only(g, "DoWhile",
                {[tag |-> "DoWhile", inner |-> x] : x \in DoWhileStmtsAt(p, n, d - 1, g)})
         \cup Only(g, "For",
                {[tag |-> "For", inner |-> x] : x \in ForStmtsAt(p, n, d - 1, g)})
         \cup Only(g, "ForIn",
                {[tag |-> "ForIn", inner |-> x] : x \in ForInStmtsAt(p, n, d - 1, g)})
         \cup Only(g, "ForOf",
                {[tag |-> "ForOf", inner |-> x] : x \in ForOfStmtsAt(p, n, d - 1, g)})

LeafTags == {"Expr", "Empty", "Debugger", "Return", "Break", "Continue", "Throw", "Var"}
BodyTags == {"With", "Labeled", "While", "DoWhile", "For", "ForIn", "ForOf"}
AllTags == LeafTags \cup BodyTags \cup {"Block", "If", "Switch", "Try", "Decl"}

\* the statements of grammar g of at most n tokens
StmtsUpTo(n, d, g) == UNION {StmtsAt(0, m, d, g) : m \in 1..n}

\* every statement tree of at most MaxTokens tokens
AnyStmts == StmtsUpTo(MaxTokens, MaxDepth, AllTags)

\* if statements and else-if chains
IfStmts == StmtsUpTo(MaxIfTokens, MaxDepth + 1, {"If", "Empty", "Return"})

\* single-body statements nested in one another
BodyStmts ==
    StmtsUpTo(MaxBodyTokens, MaxDepth + 1,
              {"Labeled", "With", "While", "DoWhile", "For", "ForIn", "ForOf", "Break"})

\* switch statements with cases
SwitchStmts == StmtsUpTo(MaxSwitchTokens, MaxDepth, {"Switch", "Empty", "Break", "Decl"})

\* try statements with handlers and finalizers
TryStmts == StmtsUpTo(MaxTryTokens, MaxDepth, {"Try", "Empty", "Throw"})

Stmts == AnyStmts \cup IfStmts \cup BodyStmts \cup SwitchStmts \cup TryStmts

(***************************************************************************)
(* The nodes nested in a statement tree, each with the name of its type.   *)
(***************************************************************************)
NodeOf(kind, value) == [kind |-> kind, value |-> value]

RECURSIVE StmtNodes(_)

PartNodes(parts) ==
    UNION {IF parts[i].tag = "Stmt" THEN StmtNodes(parts[i].stmt) ELSE {} :
           i \in 1..Len(parts)}

BlockNodes(b) == {NodeOf("BlockStmt", b)} \cup PartNodes(b.stmts)

CaseNodes(c) == {NodeOf("SwitchCase", c)} \cup PartNodes(c.consequent)

TryNodes(t) ==
    BlockNodes(t.block)
    \cup (IF IsSome(t.handler)
          THEN {NodeOf("CatchClause", Unwrap(t.handler))}
               \cup (IF IsSome(Unwrap(t.handler).param)
                     THEN {NodeOf("CatchArg", Unwrap(Unwrap(t.handler).param))}
                     ELSE {})
               \cup BlockNodes(Unwrap(t.handler).body)
          ELSE {})
    \cup (IF IsSome(t.finalizer)
          THEN {NodeOf("FinallyClause", Unwrap(t.finalizer))}
               \cup BlockNodes(Unwrap(t.finalizer).body)
          ELSE {})

StmtNodes(s) ==
    {NodeOf("Stmt", s)}
    \cup CASE s.tag \in {"With", "Labeled", "While", "DoWhile"} -> StmtNodes(s.inner.body)
           [] s.tag = "Block" -> BlockNodes(s.inner)
           [] s.tag = "If" ->
                StmtNodes(s.inner.consequent)
                \cup (IF IsSome(s.inner.alternate)
                      THEN {NodeOf("ElseStmt", Unwrap(s.inner.alternate))}
                           \cup StmtNodes(Unwrap(s.inner.alternate).body)
                      ELSE {})
           [] s.tag = "Switch" ->
                UNION {CaseNodes(s.inner.cases[i]) : i \in 1..Len(s.inner.cases)}
           [] s.tag = "Try" -> TryNodes(s.inner)
           [] s.tag = "For" ->
                (IF IsSome(s.inner.init)
                 THEN {NodeOf("LoopInit", Unwrap(s.inner.init))} ELSE {})
                \cup StmtNodes(s.inner.body)
           [] s.tag \in {"ForIn", "ForOf"} ->
                {NodeOf("LoopLeft", s.inner.left)} \cup StmtNodes(s.inner.body)
           [] OTHER -> {}

\* the Node impl of each node type
NodeLoc(n) ==
    CASE n.kind = "Stmt" -> StmtLoc(n.value)
      [] n.kind = "BlockStmt" -> BlockStmtLoc(n.value)
      [] n.kind = "SwitchCase" -> SwitchCaseLoc(n.value)
      [] n.kind = "ElseStmt" -> ElseStmtLoc(n.value)
      [] n.kind = "CatchClause" -> CatchClauseLoc(n.value)
      [] n.kind = "CatchArg" -> CatchArgLoc(n.value)
      [] n.kind = "FinallyClause" -> FinallyClauseLoc(n.value)
      [] n.kind = "LoopInit" -> LoopInitLoc(n.value)
      [] n.kind = "LoopLeft" -> LoopLeftLoc(n.value)

(***************************************************************************)
(* The role container (spanned/dci.rs).  The text of a node generic in T   *)
(* is a record of the characters and of whether the node owns them.        *)
(***************************************************************************)
Text(chars, owned) == [chars |-> chars, owned |-> owned]

\* T::to_string
ToOwned(t) == Text(t.chars, TRUE)

\* Ident<T> and Prop<T> of the collaborating grammar: the tokens of the
\* entry `key: value`
IdentTAt(t) == [source |-> Text(Name(t), FALSE), loc |-> TokLoc(t)]
PropAt(t) ==
    [key |-> IdentTAt(t), colon |-> Slice(t + 1, ":"), value |-> IdentTAt(t + 2)]

IdentIntoAllocated(i) == [source |-> ToOwned(i.source), loc |-> i.loc]
PropIntoAllocated(q) ==
    [key |-> IdentIntoAllocated(q.key), colon |-> q.colon,
     value |-> IdentIntoAllocated(q.value)]

\* a role with k entries; the keyword is the first token
RoleAt(p, id, k) ==
    [keyword |-> Slice(p, "role"),
     id |-> IF id THEN Some(IdentTAt(p + 1)) ELSE None,
     body |-> [open_brace |-> Slice(p + 1 + Tok(id), "{"),
               props |-> [i \in 1..k |-> PropAt(p + 2 + Tok(id) + 3 * (i - 1))],
               close_brace |-> Slice(p + 2 + Tok(id) + 3 * k, "}")]]

Roles == {RoleAt(0, id, k) : id \in BOOLEAN, k \in 0..MaxProps}

\* impl IntoAllocated for RoleBody
RoleBodyIntoAllocated(self) ==
    [open_brace |-> self.open_brace,
     props |-> [i \in 1..Len(self.props) |-> PropIntoAllocated(self.props[i])],
     close_brace |-> self.close_brace]

\* impl IntoAllocated for Role
RoleIntoAllocated(self) ==
    [keyword |-> self.keyword,
     id |-> (IF IsSome(self.id) THEN Some(IdentIntoAllocated(Unwrap(self.id))) ELSE None),
     body |-> RoleBodyIntoAllocated(self.body)]

\* impl Node for Role
RoleLoc(self) ==
    [start |-> self.keyword.loc.start, end |-> self.body.close_brace.loc.end]

\* the allocated Role of dci.rs: an identifier and a RoleBody, which is a
\* tuple struct around the entries; no keyword and no brace
AllocatedRole(id, props) == [id |-> id, body |-> props]

(***************************************************************************)
(* The state machine.  A tree is built by the parser (Init); its nodes are *)
(* asked for their location any number of times; the tree is converted     *)
(* once.                                                                   *)
(***************************************************************************)
Init ==
    /\ \/ stmt \in {Some(s) : s \in Stmts} /\ role = None
       \/ stmt = None /\ role \in {Some(r) : r \in Roles}
    /\ node = None
    /\ location = None
    /\ allocated = None
    /\ roleAllocated = None
    /\ stack = <<>>
    /\ visited = <<>>
    /\ steps = 0
    /\ aborted = FALSE

\* Node::loc of a node of the statement tree
Loc(n) ==
    /\ IsSome(stmt)
    /\ IsNone(allocated)
    /\ node' = Some(n)
    /\ location' = Some(NodeLoc(n))
    /\ UNCHANGED <<stmt, allocated, role, roleAllocated>>
    /\ UNCHANGED walk

\* Stmt::from of the statement tree
Convert ==
    /\ IsSome(stmt)
    /\ IsNone(allocated)
    /\ allocated' = Some(StmtFrom(Unwrap(stmt)))
    /\ node' = None
    /\ location' = None
    /\ UNCHANGED <<stmt, role, roleAllocated>>
    /\ UNCHANGED walk

\* Node::loc of the role
LocRole ==
    /\ IsSome(role)
    /\ IsNone(roleAllocated)
    /\ node' = Some(NodeOf("Role", Unwrap(role)))
    /\ location' = Some(RoleLoc(Unwrap(role)))
    /\ UNCHANGED <<stmt, allocated, role, roleAllocated>>
    /\ UNCHANGED walk

\* Role::into_allocated of the role
ConvertRole ==
    /\ IsSome(role)
    /\ IsNone(roleAllocated)
    /\ roleAllocated' = Some(RoleIntoAllocated(Unwrap(role)))
    /\ node' = None
    /\ location' = None
    /\ UNCHANGED <<stmt, allocated, role>>
    /\ UNCHANGED walk

Next ==
    \/ \E n \in (IF IsSome(stmt) THEN StmtNodes(Unwrap(stmt)) ELSE {}) : Loc(n)
    \/ Convert
    \/ LocRole
    \/ ConvertRole

Spec == Init /\ [][Next]_vars

(***************************************************************************)
(* The conversion, call by call.  Stmt::from is a recursive function: a    *)
(* call on a statement calls Stmt::from on each statement nested directly  *)
(* in it, in the order of the fields of the From impls, and builds its     *)
(* result from what these calls return.  A frame of `stack` is a call that *)
(* has not returned: the statement it converts and the results of the      *)
(* nested calls that have returned.                                        *)
(***************************************************************************)
IsStmtPart(p) == p.tag = "Stmt"

\* the statements among program parts, in order
PartStmts(parts) ==
    LET sel == SelectSeq(parts, IsStmtPart)
    IN  [i \in 1..Len(sel) |-> sel[i].stmt]

RECURSIVE CasesStmts(_)
\* the statements of the consequents of switch cases, in order
CasesStmts(cases) ==
    IF cases = <<>> THEN <<>>
    ELSE PartStmts(Head(cases).consequent) \o CasesStmts(Tail(cases))

\* the catch body's statements of a try statement
HandlerStmts(t) ==
    IF IsSome(t.handler) THEN PartStmts(Unwrap(t.handler).body.stmts) ELSE <<>>

\* the finally body's statements of a try statement
FinalizerStmts(t) ==
    IF IsSome(t.finalizer) THEN PartStmts(Unwrap(t.finalizer).body.stmts) ELSE <<>>

\* the statements Stmt::from(other) calls Stmt::from on, in calling order
StmtChildren(other) ==
    CASE other.tag \in {"With", "Labeled", "While", "DoWhile", "For", "ForIn", "ForOf"} ->
            <<other.inner.body>>
      [] other.tag = "Block" -> PartStmts(other.inner.stmts)
      [] other.tag = "If" ->
            <<other.inner.consequent>>
            \o (IF IsSome(other.inner.alternate)
                THEN <<Unwrap(other.inner.alternate).body>> ELSE <<>>)
      [] other.tag = "Switch" -> CasesStmts(other.inner.cases)
      [] other.tag = "Try" ->
            PartStmts(other.inner.block.stmts)
            \o HandlerStmts(other.inner) \o FinalizerStmts(other.inner)
      [] OTHER -> <<>>

\* From<ProgramPart> over a sequence, the statements among the parts being
\* the results rs[off + 1], rs[off + 2], ... of the nested calls
PartsFromWith(parts, rs, off) ==
    [i \in 1..Len(parts) |->
        IF parts[i].tag = "Stmt"
        THEN [tag |-> "Stmt", stmt |-> rs[off + Len(PartStmts(SubSeq(parts, 1, i)))]]
        ELSE [tag |-> "Decl", decl |-> DeclFrom(parts[i].decl)]]

\* From<SwitchStmt> from the results of the nested calls
SwitchStmtFromWith(other, rs) ==
    [discriminant |-> ExprFrom(other.discriminant),
     cases |-> [i \in 1..Len(other.cases) |->
        [test |-> (IF IsSome(other.cases[i].test)
                   THEN Some(ExprFrom(Unwrap(other.cases[i].test))) ELSE None),
         consequent |-> PartsFromWith(other.cases[i].consequent, rs,
                            Len(CasesStmts(SubSeq(other.cases, 1, i - 1))))]]]

\* From<TryStmt> from the results of the nested calls
TryStmtFromWith(other, rs) ==
    LET nb == Len(PartStmts(other.block.stmts))
        nh == Len(HandlerStmts(other))
    IN  [block |-> PartsFromWith(other.block.stmts, rs, 0),
         handler |-> IF IsSome(other.handler)
                     THEN Some([param |-> IF IsSome(Unwrap(other.handler).param)
                                          THEN Some(CatchArgParamFrom(
                                                   Unwrap(Unwrap(other.handler).param)))
                                          ELSE None,
                                body |-> PartsFromWith(Unwrap(other.handler).body.stmts,
                                                       rs, nb)])
                     ELSE None,
         finalizer |-> IF IsSome(other.finalizer)
                       THEN Some(PartsFromWith(Unwrap(other.finalizer).body.stmts,
                                               rs, nb + nh))
                       ELSE None]

\* the result of Stmt::from(other), given the results rs of its nested calls
StmtFromWith(other, rs) ==
    CASE other.tag = "Block" ->
            [tag |-> "Block", block |-> PartsFromWith(other.inner.stmts, rs, 0)]
      [] other.tag = "With" ->
            [tag |-> "With",
             inner |-> [object |-> ExprFrom(other.inner.object), body |-> rs[1]]]
      [] other.tag = "Labeled" ->
            [tag |-> "Labeled",
             inner |-> [label |-> IdentFrom(other.inner.label), body |-> rs[1]]]
      [] other.tag = "If" ->
            [tag |-> "If",
             inner |-> [test |-> ExprFrom(other.inner.test),
                        consequent |-> rs[1],
                        alternate |-> IF IsSome(other.inner.alternate)
                                      THEN Some(rs[2]) ELSE None]]
      [] other.tag = "Switch" ->
            [tag |-> "Switch", inner |-> SwitchStmtFromWith(other.inner, rs)]
      [] other.tag = "Try" -> [tag |-> "Try", inner |-> TryStmtFromWith(other.inner, rs)]
      [] other.tag \in {"While", "DoWhile"} ->
            [tag |-> other.tag,
             inner |-> [test |-> ExprFrom(other.inner.test), body |-> rs[1]]]
      [] other.tag = "For" ->
            [tag |-> "For",
             inner |-> [init |-> (IF IsSome(other.inner.init)
                                  THEN Some(LoopInitFrom(Unwrap(other.inner.init)))
                                  ELSE None),
                        test |-> (IF IsSome(other.inner.test)
                                  THEN Some(ExprFrom(Unwrap(other.inner.test)))
                                  ELSE None),
                        update |-> (IF IsSome(other.inner.update)
                                    THEN Some(ExprFrom(Unwrap(other.inner.update)))
                                    ELSE None),
                        body |-> rs[1]]]
      [] other.tag = "ForIn" ->
            [tag |-> "ForIn",
             inner |-> [left |-> LoopLeftFrom(other.inner.left),
                        right |-> ExprFrom(other.inner.right),
                        body |-> rs[1]]]
      [] other.tag = "ForOf" ->
            [tag |-> "ForOf",
             inner |-> [left |-> LoopLeftFrom(other.inner.left),
                        right |-> ExprFrom(other.inner.right),
                        body |-> rs[1],
                        is_await |-> other.inner.is_await]]
      [] other.tag \in LeafTags -> StmtFrom(other)

\* a frame: the call Stmt::from(other) and the results returned to it
Frame(other) == [other |-> other, results |-> <<>>]

\* the tree is handed to the conversion and nothing else is done with it
WalkInit ==
    /\ stmt \in {Some(s) : s \in Stmts}
    /\ role = None
    /\ node = None
    /\ location = None
    /\ allocated = None
    /\ roleAllocated = None
    /\ stack = <<>>
    /\ visited = <<>>
    /\ steps = 0
    /\ aborted = FALSE

\* the caller's Stmt::from(root)
WalkStart ==
    /\ ~aborted
    /\ IsNone(allocated)
    /\ stack = <<>>
    /\ visited = <<>>
    /\ stack' = <<Frame(Unwrap(stmt))>>
    /\ visited' = <<Unwrap(stmt)>>
    /\ steps' = steps + 1
    /\ UNCHANGED <<stmt, node, location, allocated, role, roleAllocated>>
    /\ UNCHANGED aborted

\* the running call reaches its next nested Stmt::from
WalkCall ==
    /\ ~aborted
    /\ stack # <<>>
    /\ LET top == stack[Len(stack)]
           kids == StmtChildren(top.other)
       IN  /\ Len(top.results) < Len(kids)
           /\ stack' = Append(stack, Frame(kids[Len(top.results) + 1]))
           /\ visited' = Append(visited, kids[Len(top.results) + 1])
    /\ steps' = steps + 1
    /\ UNCHANGED <<stmt, node, location, allocated, role, roleAllocated>>
    /\ UNCHANGED aborted

\* The recursion is native: every call of Stmt::from, and every call it
\* makes on the way (the From impls of the structs, the collection of a
\* Vec, the conversion of a leaf), takes its frame from the call stack of
\* the thread.  How many bytes a call takes depends on the build and on the
\* call, and how many are left when the conversion is called depends on
\* the thread and on its caller.  So whenever the conversion has not
\* returned, the outermost call not yet made included, what is called next
\* can find too little stack left: the process is then aborted and no call
\* returns any more.
WalkOverflow ==
    /\ ~aborted
    /\ IsNone(allocated)
    /\ aborted' = TRUE
    /\ UNCHANGED <<stmt, node, location, allocated, role, roleAllocated>>
    /\ UNCHANGED <<stack, visited, steps>>

\* the running call has all its nested results, builds its own and returns
\* it: to the call below it, or to the caller of the conversion
WalkReturn ==
    /\ ~aborted
    /\ stack # <<>>
    /\ LET top == stack[Len(stack)]
           result == StmtFromWith(top.other, top.results)
       IN  /\ Len(top.results) = Len(StmtChildren(top.other))
           /\ IF Len(stack) = 1
              THEN /\ stack' = <<>>
                   /\ allocated' = Some(result)
              ELSE /\ stack' = [SubSeq(stack, 1, Len(stack) - 1) EXCEPT
                                   ![Len(stack) - 1].results = Append(@, result)]
                   /\ UNCHANGED allocated
    /\ steps' = steps + 1
    /\ UNCHANGED <<stmt, node, location, role, roleAllocated, visited>>
    /\ UNCHANGED aborted

WalkNext == WalkStart \/ WalkCall \/ WalkOverflow \/ WalkReturn

\* a call runs on until it returns: nothing else is scheduled
WalkSpec == WalkInit /\ [][WalkNext]_vars /\ WF_vars(WalkNext)

(***************************************************************************)
(* Properties.  The node asked last and the location it returned are       *)
(* `node` and `location`; the result of the conversion is `allocated`.     *)
(***************************************************************************)
Located == IsSome(node) /\ IsSome(location)
LocatedStmt == Located /\ Unwrap(node).kind = "Stmt"
TheNode == Unwrap(node).value
TheLoc == Unwrap(location)
IsRoot == TheNode = Unwrap(stmt)

\* C1: loc() of every spanned node of a well-formed tree, the root as well
\* as every node nested in it, has start <= end.
C1_StartNotAfterEnd ==
    IsSome(location) => TheLoc.start <= TheLoc.end

\* a block nested in another statement has been located
C1_Witness ==
    /\ Located
    /\ Unwrap(node).kind = "BlockStmt"
    /\ IsSome(stmt) /\ Unwrap(stmt).tag = "Try"
    /\ Len(TheNode.stmts) > 0
    /\ TheLoc.start < TheLoc.end

\* C5: loc() of Return, Throw, Break and Continue starts at the keyword and
\* ends at the terminator if there is one, otherwise at the value,
\* expression or label if there is one, otherwise at the keyword.
C5_Operand(s) ==
    CASE s.tag = "Return" ->
            (IF IsSome(s.value) THEN Some(ExprLoc(Unwrap(s.value))) ELSE None)
      [] s.tag = "Throw" -> Some(ExprLoc(s.expr))
      [] s.tag \in {"Break", "Continue"} ->
            (IF IsSome(s.label) THEN Some(IdentLoc(Unwrap(s.label))) ELSE None)

C5_TerminatorFirst ==
    (LocatedStmt /\ TheNode.tag \in {"Return", "Throw", "Break", "Continue"}) =>
        /\ TheLoc.start = TheNode.keyword.loc.start
        /\ TheLoc.end =
              IF IsSome(TheNode.semi_colon) THEN Unwrap(TheNode.semi_colon).loc.end
              ELSE IF IsSome(C5_Operand(TheNode)) THEN Unwrap(C5_Operand(TheNode)).end
              ELSE TheNode.keyword.loc.end

\* a return with both a value and a terminator has been located
C5_Witness ==
    /\ LocatedStmt
    /\ TheNode.tag = "Return"
    /\ IsSome(TheNode.value) /\ IsSome(TheNode.semi_colon)
    /\ TheLoc.end = Unwrap(TheNode.semi_colon).loc.end

\* C6: loc() of a Switch spans from the `switch` keyword to the closing
\* parenthesis of the discriminant, whatever the cases are and wherever the
\* braces are.
C6_SwitchToCloseParen ==
    (LocatedStmt /\ TheNode.tag = "Switch") =>
        /\ TheLoc = [start |-> TheNode.inner.keyword.loc.start,
                     end |-> TheNode.inner.close_paren.loc.end]
        /\ TheLoc = StmtLoc([TheNode EXCEPT !.inner.cases = <<>>])
        /\ \A i \in 1..Len(TheNode.inner.cases) :
              TheLoc = StmtLoc([TheNode EXCEPT !.inner.cases = SubSeq(@, 1, i)])
        /\ TheLoc = StmtLoc([TheNode EXCEPT
                                !.inner.close_brace = TheNode.inner.open_brace])

\* a switch with a case that has a consequent has been located
C6_Witness ==
    /\ LocatedStmt
    /\ TheNode.tag = "Switch"
    /\ Len(TheNode.inner.cases) > 1
    /\ Len(TheNode.inner.cases[1].consequent) > 0
    /\ TheLoc.end < TheNode.inner.open_brace.loc.start

\* C7: loc() of an If starts at the `if` keyword and ends at the end of the
\* else clause if there is one, otherwise at the end of the consequent; in
\* an else-if chain the end is that of the innermost last clause.
RECURSIVE C7_LastClause(_)
C7_LastClause(s) ==
    IF s.tag # "If" THEN s
    ELSE IF IsSome(s.inner.alternate)
    THEN C7_LastClause(Unwrap(s.inner.alternate).body)
    ELSE s.inner.consequent

C7_IfToLastClause ==
    (LocatedStmt /\ TheNode.tag = "If") =>
        /\ TheLoc.start = TheNode.inner.keyword.loc.start
        /\ TheLoc.end =
              IF IsSome(TheNode.inner.alternate)
              THEN ElseStmtLoc(Unwrap(TheNode.inner.alternate)).end
              ELSE StmtLoc(TheNode.inner.consequent).end
        /\ TheLoc.end = StmtLoc(C7_LastClause(TheNode)).end

\* an else-if chain with a final else has been located
C7_Witness ==
    /\ LocatedStmt /\ IsRoot
    /\ TheNode.tag = "If"
    /\ IsSome(TheNode.inner.alternate)
    /\ Unwrap(TheNode.inner.alternate).body.tag = "If"
    /\ IsSome(Unwrap(TheNode.inner.alternate).body.inner.alternate)
    /\ TheLoc.end > StmtLoc(TheNode.inner.consequent).end

\* C8: loc() of a Try starts at the `try` keyword and ends at the finalizer
\* if there is one, otherwise at the handler if there is one, otherwise at
\* the block.
C8_TryFinalizerFirst ==
    (LocatedStmt /\ TheNode.tag = "Try") =>
        /\ TheLoc.start = TheNode.inner.keyword.loc.start
        /\ TheLoc.end =
              IF IsSome(TheNode.inner.finalizer)
              THEN FinallyClauseLoc(Unwrap(TheNode.inner.finalizer)).end
              ELSE IF IsSome(TheNode.inner.handler)
              THEN CatchClauseLoc(Unwrap(TheNode.inner.handler)).end
              ELSE BlockStmtLoc(TheNode.inner.block).end
        /\ IsSome(TheNode.inner.finalizer) =>
              TheLoc.end = Unwrap(TheNode.inner.finalizer).body.close_brace.loc.end
        /\ (IsNone(TheNode.inner.finalizer) /\ IsSome(TheNode.inner.handler)) =>
              TheLoc.end = Unwrap(TheNode.inner.handler).body.close_brace.loc.end
        /\ (IsNone(TheNode.inner.finalizer) /\ IsNone(TheNode.inner.handler)) =>
              TheLoc.end = TheNode.inner.block.close_brace.loc.end

\* a try with both a handler and a finalizer has been located
C8_Witness ==
    /\ LocatedStmt
    /\ TheNode.tag = "Try"
    /\ IsSome(TheNode.inner.handler) /\ IsSome(TheNode.inner.finalizer)
    /\ TheLoc.end > CatchClauseLoc(Unwrap(TheNode.inner.handler)).end

\* C9: loc() of a DoWhile spans from the `do` keyword to the closing
\* parenthesis of the test, with and without the trailing terminator.
C9_DoWhileToCloseParen ==
    (LocatedStmt /\ TheNode.tag = "DoWhile") =>
        TheLoc = [start |-> TheNode.inner.keyword_do.loc.start,
                  end |-> TheNode.inner.close_paren.loc.end]

\* a do-while with a trailing terminator has been located
C9_Witness ==
    /\ LocatedStmt
    /\ TheNode.tag = "DoWhile"
    /\ IsSome(TheNode.inner.semi_colon)
    /\ TheLoc.end < Unwrap(TheNode.inner.semi_colon).loc.end

\* C10: loc() of Labeled, With, While, For, ForIn and ForOf starts at the
\* label or leading keyword and ends where the body ends; in a chain of
\* such statements the end is that of the innermost body.
C10_Tags == {"Labeled", "With", "While", "For", "ForIn", "ForOf"}

C10_Start(s) ==
    CASE s.tag = "Labeled" -> IdentLoc(s.inner.label).start
      [] s.tag \in {"With", "While", "For"} -> s.inner.keyword.loc.start
      [] s.tag \in {"ForIn", "ForOf"} -> s.inner.keyword_for.loc.start

RECURSIVE C10_InnermostBody(_)
C10_InnermostBody(s) ==
    IF s.tag \in C10_Tags THEN C10_InnermostBody(s.inner.body) ELSE s

C10_BodyEnd ==
    (LocatedStmt /\ TheNode.tag \in C10_Tags) =>
        /\ TheLoc.start = C10_Start(TheNode)
        /\ TheLoc.end = StmtLoc(TheNode.inner.body).end
        /\ TheLoc.end = StmtLoc(C10_InnermostBody(TheNode)).end

\* a labeled loop over a loop has been located
C10_Witness ==
    /\ LocatedStmt /\ IsRoot
    /\ TheNode.tag = "Labeled"
    /\ TheNode.inner.body.tag = "While"
    /\ TheNode.inner.body.inner.body.tag \in C10_Tags
    /\ TheLoc.end > TheNode.inner.body.inner.close_paren.loc.end

(***************************************************************************)
(* The shape of a tree: the variant tag of every node and, slot by slot,   *)
(* its children in order; an optional child is a slot of zero or one       *)
(* child, a collaborating leaf is named by its text.                       *)
(***************************************************************************)
C2_Shape(tag, name, slots) == [tag |-> tag, name |-> name, slots |-> slots]

RECURSIVE C2_SpannedShape(_)

C2_SpannedLeaf(x) == C2_Shape(x.kind, x.slice.source, <<>>)
C2_SpannedLeafOpt(o) == IF IsSome(o) THEN <<C2_SpannedLeaf(Unwrap(o))>> ELSE <<>>

C2_SpannedPartShape(q) ==
    IF q.tag = "Stmt"
    THEN C2_Shape("Stmt", "", <<<<C2_SpannedShape(q.stmt)>>>>)
    ELSE C2_Shape("Decl", "", <<<<C2_SpannedLeaf(q.decl)>>>>)

C2_SpannedPartsShape(parts) == [i \in 1..Len(parts) |-> C2_SpannedPartShape(parts[i])]

C2_SpannedBlockShape(b) == C2_Shape("BlockStmt", "", <<C2_SpannedPartsShape(b.stmts)>>)

C2_SpannedDeclsShape(decls) == [i \in 1..Len(decls) |-> C2_SpannedLeaf(decls[i].item)]

C2_SpannedCaseShape(c) ==
    C2_Shape("SwitchCase", "", <<C2_SpannedLeafOpt(c.test), C2_SpannedPartsShape(c.consequent)>>)

C2_SpannedCatchShape(c) ==
    C2_Shape("CatchClause", "",
          <<IF IsSome(c.param) THEN <<C2_SpannedLeaf(Unwrap(c.param).param)>> ELSE <<>>,
            <<C2_SpannedBlockShape(c.body)>>>>)

C2_SpannedInitShape(i) ==
    IF i.tag = "Expr"
    THEN C2_Shape("Expr", "", <<<<C2_SpannedLeaf(i.inner)>>>>)
    ELSE C2_Shape("Variable", i.kind.slice.source, <<C2_SpannedDeclsShape(i.decls)>>)

C2_SpannedLeftShape(l) ==
    IF l.tag = "Variable"
    THEN C2_Shape("Variable", l.kind.slice.source, <<<<C2_SpannedLeaf(l.decl)>>>>)
    ELSE C2_Shape(l.tag, "", <<<<C2_SpannedLeaf(l.inner)>>>>)

C2_SpannedShape(s) ==
    C2_Shape(s.tag, "",
      CASE s.tag \in {"Expr", "Throw"} -> <<<<C2_SpannedLeaf(s.expr)>>>>
        [] s.tag = "Block" -> <<C2_SpannedPartsShape(s.inner.stmts)>>
        [] s.tag \in {"Empty", "Debugger"} -> <<>>
        [] s.tag = "With" ->
              <<<<C2_SpannedLeaf(s.inner.object)>>, <<C2_SpannedShape(s.inner.body)>>>>
        [] s.tag = "Return" -> <<C2_SpannedLeafOpt(s.value)>>
        [] s.tag = "Labeled" ->
              <<<<C2_SpannedLeaf(s.inner.label)>>, <<C2_SpannedShape(s.inner.body)>>>>
        [] s.tag \in {"Break", "Continue"} -> <<C2_SpannedLeafOpt(s.label)>>
        [] s.tag = "If" ->
              <<<<C2_SpannedLeaf(s.inner.test)>>,
                <<C2_SpannedShape(s.inner.consequent)>>,
                IF IsSome(s.inner.alternate)
                THEN <<C2_SpannedShape(Unwrap(s.inner.alternate).body)>> ELSE <<>>>>
        [] s.tag = "Switch" ->
              <<<<C2_SpannedLeaf(s.inner.discriminant)>>,
                [i \in 1..Len(s.inner.cases) |-> C2_SpannedCaseShape(s.inner.cases[i])]>>
        [] s.tag = "Try" ->
              <<<<C2_SpannedBlockShape(s.inner.block)>>,
                IF IsSome(s.inner.handler)
                THEN <<C2_SpannedCatchShape(Unwrap(s.inner.handler))>> ELSE <<>>,
                IF IsSome(s.inner.finalizer)
                THEN <<C2_SpannedBlockShape(Unwrap(s.inner.finalizer).body)>> ELSE <<>>>>
        [] s.tag \in {"While", "DoWhile"} ->
              <<<<C2_SpannedLeaf(s.inner.test)>>, <<C2_SpannedShape(s.inner.body)>>>>
        [] s.tag = "For" ->
              <<IF IsSome(s.inner.init)
                THEN <<C2_SpannedInitShape(Unwrap(s.inner.init))>> ELSE <<>>,
                C2_SpannedLeafOpt(s.inner.test),
                C2_SpannedLeafOpt(s.inner.update),
                <<C2_SpannedShape(s.inner.body)>>>>
        [] s.tag \in {"ForIn", "ForOf"} ->
              <<<<C2_SpannedLeftShape(s.inner.left)>>,
                <<C2_SpannedLeaf(s.inner.right)>>,
                <<C2_SpannedShape(s.inner.body)>>>>
        [] s.tag = "Var" -> <<C2_SpannedDeclsShape(s.decls.decls)>>)

RECURSIVE C2_AllocatedShape(_)

C2_AllocatedLeaf(x) == C2_Shape(x.kind, x.name, <<>>)
C2_AllocatedLeafOpt(o) == IF IsSome(o) THEN <<C2_AllocatedLeaf(Unwrap(o))>> ELSE <<>>

C2_AllocatedPartShape(q) ==
    IF q.tag = "Stmt"
    THEN C2_Shape("Stmt", "", <<<<C2_AllocatedShape(q.stmt)>>>>)
    ELSE C2_Shape("Decl", "", <<<<C2_AllocatedLeaf(q.decl)>>>>)

C2_AllocatedPartsShape(parts) == [i \in 1..Len(parts) |-> C2_AllocatedPartShape(parts[i])]

C2_AllocatedBlockShape(b) == C2_Shape("BlockStmt", "", <<C2_AllocatedPartsShape(b)>>)

C2_AllocatedDeclsShape(decls) == [i \in 1..Len(decls) |-> C2_AllocatedLeaf(decls[i])]

C2_AllocatedCaseShape(c) ==
    C2_Shape("SwitchCase", "", <<C2_AllocatedLeafOpt(c.test), C2_AllocatedPartsShape(c.consequent)>>)

C2_AllocatedCatchShape(c) ==
    C2_Shape("CatchClause", "", <<C2_AllocatedLeafOpt(c.param), <<C2_AllocatedBlockShape(c.body)>>>>)

C2_AllocatedInitShape(i) ==
    IF i.tag = "Expr"
    THEN C2_Shape("Expr", "", <<<<C2_AllocatedLeaf(i.inner)>>>>)
    ELSE C2_Shape("Variable", i.kind, <<C2_AllocatedDeclsShape(i.decls)>>)

C2_AllocatedLeftShape(l) ==
    IF l.tag = "Variable"
    THEN C2_Shape("Variable", l.kind, <<<<C2_AllocatedLeaf(l.decl)>>>>)
    ELSE C2_Shape(l.tag, "", <<<<C2_AllocatedLeaf(l.inner)>>>>)

C2_AllocatedShape(a) ==
    C2_Shape(a.tag, "",
      CASE a.tag \in {"Expr", "Throw"} -> <<<<C2_AllocatedLeaf(a.expr)>>>>
        [] a.tag = "Block" -> <<C2_AllocatedPartsShape(a.block)>>
        [] a.tag \in {"Empty", "Debugger"} -> <<>>
        [] a.tag = "With" ->
              <<<<C2_AllocatedLeaf(a.inner.object)>>, <<C2_AllocatedShape(a.inner.body)>>>>
        [] a.tag = "Return" -> <<C2_AllocatedLeafOpt(a.value)>>
        [] a.tag = "Labeled" ->
              <<<<C2_AllocatedLeaf(a.inner.label)>>, <<C2_AllocatedShape(a.inner.body)>>>>
        [] a.tag \in {"Break", "Continue"} -> <<C2_AllocatedLeafOpt(a.label)>>
        [] a.tag = "If" ->
              <<<<C2_AllocatedLeaf(a.inner.test)>>,
                <<C2_AllocatedShape(a.inner.consequent)>>,
                IF IsSome(a.inner.alternate)
                THEN <<C2_AllocatedShape(Unwrap(a.inner.alternate))>> ELSE <<>>>>
        [] a.tag = "Switch" ->
              <<<<C2_AllocatedLeaf(a.inner.discriminant)>>,
                [i \in 1..Len(a.inner.cases) |-> C2_AllocatedCaseShape(a.inner.cases[i])]>>
        [] a.tag = "Try" ->
              <<<<C2_AllocatedBlockShape(a.inner.block)>>,
                IF IsSome(a.inner.handler)
                THEN <<C2_AllocatedCatchShape(Unwrap(a.inner.handler))>> ELSE <<>>,
                IF IsSome(a.inner.finalizer)
                THEN <<C2_AllocatedBlockShape(Unwrap(a.inner.finalizer))>> ELSE <<>>>>
        [] a.tag \in {"While", "DoWhile"} ->
              <<<<C2_AllocatedLeaf(a.inner.test)>>, <<C2_AllocatedShape(a.inner.body)>>>>
        [] a.tag = "For" ->
              <<IF IsSome(a.inner.init)
                THEN <<C2_AllocatedInitShape(Unwrap(a.inner.init))>> ELSE <<>>,
                C2_AllocatedLeafOpt(a.inner.test),
                C2_AllocatedLeafOpt(a.inner.update),
                <<C2_AllocatedShape(a.inner.body)>>>>
        [] a.tag \in {"ForIn", "ForOf"} ->
              <<<<C2_AllocatedLeftShape(a.inner.left)>>,
                <<C2_AllocatedLeaf(a.inner.right)>>,
                <<C2_AllocatedShape(a.inner.body)>>>>
        [] a.tag = "Var" -> <<C2_AllocatedDeclsShape(a.decls)>>)

\* C2: the allocated tree has the variant tag of the spanned tree at every
\* position and the same children in the same order; an optional child is
\* present in the one exactly when it is present in the other.
C2_SameShape ==
    IsSome(allocated) => C2_AllocatedShape(Unwrap(allocated)) = C2_SpannedShape(Unwrap(stmt))

\* a block of two different parts has been converted
C2_Witness ==
    /\ IsSome(allocated)
    /\ Unwrap(stmt).tag = "Block"
    /\ Len(Unwrap(stmt).inner.stmts) = 2
    /\ Unwrap(allocated).tag = "Block"
    /\ Len(Unwrap(allocated).block) = 2
    /\ C2_AllocatedPartShape(Unwrap(allocated).block[1])
          # C2_AllocatedPartShape(Unwrap(allocated).block[2])

(***************************************************************************)
(* The tree without its trailing terminators: every semi_colon slot, at    *)
(* any depth, is emptied and nothing else is changed.                      *)
(***************************************************************************)
RECURSIVE C3_Strip(_)

C3_StripParts(parts) ==
    [i \in 1..Len(parts) |->
        IF parts[i].tag = "Stmt"
        THEN [parts[i] EXCEPT !.stmt = C3_Strip(parts[i].stmt)]
        ELSE parts[i]]

C3_StripBlock(b) == [b EXCEPT !.stmts = C3_StripParts(b.stmts)]

C3_StripCase(c) == [c EXCEPT !.consequent = C3_StripParts(c.consequent)]

C3_StripElse(o) ==
    IF IsSome(o) THEN Some([Unwrap(o) EXCEPT !.body = C3_Strip(Unwrap(o).body)]) ELSE None

C3_StripClause(o) ==
    IF IsSome(o) THEN Some([Unwrap(o) EXCEPT !.body = C3_StripBlock(Unwrap(o).body)]) ELSE None

C3_Strip(s) ==
    CASE s.tag \in {"Expr", "Debugger", "Return", "Break", "Continue", "Throw", "Var"} ->
            [s EXCEPT !.semi_colon = None]
      [] s.tag = "Empty" -> s
      [] s.tag = "Block" -> [s EXCEPT !.inner = C3_StripBlock(s.inner)]
      [] s.tag \in {"With", "Labeled", "While", "For", "ForIn", "ForOf"} ->
            [s EXCEPT !.inner.body = C3_Strip(s.inner.body)]
      [] s.tag = "DoWhile" ->
            [s EXCEPT !.inner.body = C3_Strip(s.inner.body),
                      !.inner.semi_colon = None]
      [] s.tag = "If" ->
            [s EXCEPT !.inner.consequent = C3_Strip(s.inner.consequent),
                      !.inner.alternate = C3_StripElse(s.inner.alternate)]
      [] s.tag = "Switch" ->
            [s EXCEPT !.inner.cases =
                [i \in 1..Len(s.inner.cases) |-> C3_StripCase(s.inner.cases[i])]]
      [] s.tag = "Try" ->
            [s EXCEPT !.inner.block = C3_StripBlock(s.inner.block),
                      !.inner.handler = C3_StripClause(s.inner.handler),
                      !.inner.finalizer = C3_StripClause(s.inner.finalizer)]

\* C3: two spanned trees that differ only in which semi_colon slots are
\* present convert to equal allocated trees: a tree converts to what the
\* tree without any of its terminators converts to.
C3_TerminatorsDropped ==
    IsSome(allocated) => Unwrap(allocated) = StmtFrom(C3_Strip(Unwrap(stmt)))

\* a do-while with a terminator, over a body with a terminator, has been
\* converted
C3_Witness ==
    /\ IsSome(allocated)
    /\ Unwrap(stmt).tag = "DoWhile"
    /\ IsSome(Unwrap(stmt).inner.semi_colon)
    /\ Unwrap(stmt).inner.body.tag = "Break"
    /\ IsSome(Unwrap(stmt).inner.body.semi_colon)
    /\ C3_Strip(Unwrap(stmt)) # Unwrap(stmt)
    /\ Unwrap(allocated).tag = "DoWhile"

\* C4: converting a spanned role strips the keyword and both braces: the
\* result is the allocated role, which holds only the identifier and the
\* converted entries, in their original order.
C4_KeywordAndBracesStripped ==
    IsSome(roleAllocated) =>
        LET self == Unwrap(role)
            id == IF IsSome(self.id)
                  THEN Some(IdentIntoAllocated(Unwrap(self.id))) ELSE None
            props == [i \in 1..Len(self.body.props) |->
                         PropIntoAllocated(self.body.props[i])]
        IN  /\ DOMAIN Unwrap(roleAllocated) = DOMAIN AllocatedRole(id, props)
            /\ Unwrap(roleAllocated) = AllocatedRole(id, props)

\* C11: loc() of a SwitchCase starts at the `case`/`default` keyword and
\* ends at the end of the last consequent part if there is one, otherwise at
\* the end of the colon; neither the test nor the earlier consequent parts
\* have a say in the end.
C11_SwitchCaseToLastPart ==
    (Located /\ Unwrap(node).kind = "SwitchCase") =>
        LET c == TheNode
            n == Len(c.consequent)
        IN  /\ TheLoc.start = c.keyword.loc.start
            /\ TheLoc.end = IF n > 0 THEN ProgramPartLoc(c.consequent[n]).end
                            ELSE c.colon.loc.end
            /\ TheLoc = SwitchCaseLoc([c EXCEPT !.test = None])
            /\ n > 0 => TheLoc = SwitchCaseLoc([c EXCEPT !.consequent = <<c.consequent[n]>>])

\* a case with a test and several consequent parts has been located
C11_Witness ==
    /\ Located
    /\ Unwrap(node).kind = "SwitchCase"
    /\ IsSome(TheNode.test)
    /\ Len(TheNode.consequent) >= 2
    /\ ProgramPartLoc(TheNode.consequent[1]).end < TheLoc.end

\* C12: loc() of an Expr, Debugger or Var statement starts where its
\* expression, keyword or declaration list starts and ends at the terminator
\* if there is one, otherwise where the expression, keyword or declaration
\* list ends; loc() of an Empty statement is the location of its slice.
C12_Head(s) ==
    CASE s.tag = "Expr" -> ExprLoc(s.expr)
      [] s.tag = "Debugger" -> s.keyword.loc
      [] s.tag = "Var" ->
            [start |-> s.decls.keyword.slice.loc.start,
             end |-> VarDeclLoc(s.decls.decls[Len(s.decls.decls)].item).end]

C12_TerminatorOrHead ==
    /\ (LocatedStmt /\ TheNode.tag \in {"Expr", "Debugger", "Var"}) =>
            /\ TheLoc.start = C12_Head(TheNode).start
            /\ TheLoc.end = IF IsSome(TheNode.semi_colon)
                            THEN Unwrap(TheNode.semi_colon).loc.end
                            ELSE C12_Head(TheNode).end
    /\ (LocatedStmt /\ TheNode.tag = "Empty") => TheLoc = TheNode.inner.loc

\* a declaration statement with several declarators and a terminator has
\* been located
C12_Witness ==
    /\ LocatedStmt
    /\ TheNode.tag = "Var"
    /\ Len(TheNode.decls.decls) >= 2
    /\ IsSome(TheNode.semi_colon)
    /\ TheLoc.end = Unwrap(TheNode.semi_colon).loc.end
    /\ TheLoc.end > VarDeclsLoc(TheNode.decls).end

\* C13: loc() of a LoopInit in declaration form starts at the kind keyword
\* and ends at the end of the last declarator; with no declarator it is the
\* location of the kind keyword.  loc() of a LoopInit in expression form is
\* the location of the expression.
C13_LoopInitToLastDeclarator ==
    (Located /\ Unwrap(node).kind = "LoopInit") =>
        LET i == TheNode
        IN  IF i.tag = "Variable"
            THEN IF Len(i.decls) > 0
                 THEN /\ TheLoc.start = i.kind.slice.loc.start
                      /\ TheLoc.end = VarDeclLoc(i.decls[Len(i.decls)].item).end
                 ELSE TheLoc = i.kind.slice.loc
            ELSE TheLoc = ExprLoc(i.inner)

\* a loop initialiser declaring several variables has been located
C13_Witness ==
    /\ Located
    /\ Unwrap(node).kind = "LoopInit"
    /\ TheNode.tag = "Variable"
    /\ Len(TheNode.decls) >= 2
    /\ TheLoc.end > VarDeclLoc(TheNode.decls[1].item).end

\* C14: the conversion of every finite spanned tree, whatever its
\* variants, optional slots and nesting depth, is total and terminating: it
\* never ends in an error, it calls Stmt::from once on every statement of
\* the tree, it never takes more than twice as many steps (a call and a
\* return per statement) as the tree has statements, a step is possible
\* whenever the result is not there yet, the result is eventually there,
\* and it is the allocated tree of the recursive definition.
C14_Statements == {n.value : n \in {m \in StmtNodes(Unwrap(stmt)) : m.kind = "Stmt"}}

C14_Size == Cardinality(C14_Statements)

C14_WithinTreeSize ==
    /\ ~aborted
    /\ steps <= 2 * C14_Size
    /\ Len(stack) <= C14_Size
    /\ Len(visited) <= C14_Size
    /\ \A i \in 1..Len(visited) :
          /\ visited[i] \in C14_Statements
          /\ \A j \in 1..Len(visited) : visited[i] = visited[j] => i = j
    /\ IsNone(allocated) => ENABLED WalkNext
    /\ IsSome(allocated) =>
          /\ stack = <<>>
          /\ steps = 2 * C14_Size
          /\ {visited[i] : i \in 1..Len(visited)} = C14_Statements
          /\ Unwrap(allocated) = StmtFrom(Unwrap(stmt))
          /\ Unwrap(allocated).tag = Unwrap(stmt).tag

C14_TotalAndTerminating == []C14_WithinTreeSize /\ <>IsSome(allocated)

\* the conversion has run out of stack three calls deep in a chain of
\* labels, before the innermost statement was converted
C14_Witness ==
    /\ aborted
    /\ IsNone(allocated)
    /\ Len(stack) >= 3
    /\ \A i \in 1..Len(stack) : stack[i].other.tag = "Labeled"
    /\ Len(visited) < C14_Size

\* C15: loc() of every statement but a Switch contains loc() of each
\* statement nested directly in it (a loop, label or with body, the
\* branches of an If, the parts of a block, the blocks of a Try and their
\* parts): it starts no later and ends no earlier.  The statements of the
\* cases of a Switch lie outside loc() of the Switch, after its end.
C15_Blocks(s) ==
    IF s.tag = "Try"
    THEN {s.inner.block}
         \cup (IF IsSome(s.inner.handler) THEN {Unwrap(s.inner.handler).body} ELSE {})
         \cup (IF IsSome(s.inner.finalizer) THEN {Unwrap(s.inner.finalizer).body} ELSE {})
    ELSE {}

C15_NestedLocs(s) ==
    {StmtLoc(StmtChildren(s)[i]) : i \in 1..Len(StmtChildren(s))}
    \cup {BlockStmtLoc(b) : b \in C15_Blocks(s)}

C15_ParentContainsChild ==
    LocatedStmt =>
        \A child \in C15_NestedLocs(TheNode) :
            IF TheNode.tag = "Switch"
            THEN TheLoc.end < child.start
            ELSE TheLoc.start <= child.start /\ child.end <= TheLoc.end

\* a for loop whose body is a statement with a terminator has been located
C15_Witness ==
    /\ LocatedStmt
    /\ TheNode.tag = "For"
    /\ IsSome(TheNode.inner.init)
    /\ TheNode.inner.body.tag = "Break"
    /\ IsSome(TheNode.inner.body.semi_colon)
    /\ TheLoc.end = Unwrap(TheNode.inner.body.semi_colon).loc.end
    /\ TheLoc.start < StmtLoc(TheNode.inner.body).start

====
